---------------------------- MODULE Spec2Model ----------------------------
(***************************************************************************)
(* Model of deepequal.go: DeepEqual(a1, a2) and the recursive              *)
(* deepEqualState.deepValueEqual, with its visited map (cycle guard), its  *)
(* depth counter, its sub flag and the trace it writes.                    *)
(*                                                                         *)
(* Values live in a fixed heap of nodes.  A node is a storage location     *)
(* (its index is its address) holding a value of some kind.  A             *)
(* reflect.Value is a pair [n, addr]: the node whose contents it holds (0  *)
(* is the invalid Value) and whether reflect reports it addressable.       *)
(* Every location has an address of its own; in Go a struct and its first  *)
(* field share one, but their types differ and visit carries the type.     *)
(* The recursion is run as an explicit call stack: one action runs a       *)
(* callee from its entry up to its first recursive call or its return.     *)
(* DeepEqual is called MaxCalls times on the same arguments, each call     *)
(* with a fresh deepEqualState and its own draw of the map key orders.     *)
(***************************************************************************)
EXTENDS Integers, Sequences, FiniteSets, TLC

\* Largest number of deepValueEqual frames the stack can hold before the
\* runtime aborts the program with "stack overflow".
MaxStack == 16

\* Number of times DeepEqual is called on the same pair of arguments.
MaxCalls == 2

----------------------------------------------------------------------------
(* reflect.Value contents: the heap *)

Node(k, t, v, nl, ks, ky, p) ==
    [kind |-> k, typ |-> t, val |-> v, isnil |-> nl, kids |-> ks, keys |-> ky, ptr |-> p]

IntN(t, v)      == Node("int", t, v, FALSE, <<>>, <<>>, 0)
FuncN(nl)       == Node("func", "func()", 0, nl, <<>>, <<>>, 0)
PtrN(t, p)      == Node("ptr", t, 0, p = 0, <<>>, <<>>, p)
StructN(t, ks)  == Node("struct", t, 0, FALSE, ks, <<>>, 0)
ArrayN(t, ks)   == Node("array", t, 0, FALSE, ks, <<>>, 0)
\* a slice header; its data pointer is the address of its first element
SliceN(t, nl, ks) == Node("slice", t, 0, nl, ks, <<>>, 0)
\* a map header; p identifies the map's storage, keys[i] maps to kids[i]
MapN(t, p, ky, ks) == Node("map", t, 0, p = 0, ks, ky, p)
IfaceN(p)       == Node("iface", "interface{}", 0, p = 0, <<>>, <<>>, p)

\* type T struct { Val int; Next *T }     type F struct { Id int; Fn func() }
\* type W struct { Tags []int; Any interface{} }   type X struct { M map[string]int }
\* type M map[string]M    type S []S    type P *P    type MyInt int
FieldNames(t) ==
    CASE t = "T" -> <<"Val", "Next">>
      [] t = "F" -> <<"Id", "Fn">>
      [] t = "W" -> <<"Tags", "Any">>
      [] t = "X" -> <<"M">>
      [] OTHER   -> <<>>

\* One bank of values; node i of the bank lives at address i.
Zoo == <<
    (*  1 *) StructN("T", <<2, 3>>),        \* A: a.Next = &a
    (*  2 *) IntN("int", 0),
    (*  3 *) PtrN("*T", 1),
    (*  4 *) StructN("T", <<5, 6>>),        \* B1 -> B2 -> B1
    (*  5 *) IntN("int", 0),
    (*  6 *) PtrN("*T", 7),
    (*  7 *) StructN("T", <<8, 9>>),
    (*  8 *) IntN("int", 0),
    (*  9 *) PtrN("*T", 4),
    (* 10 *) StructN("T", <<11, 12>>),      \* C1 -> C2 -> C1, C2.Val = 1
    (* 11 *) IntN("int", 0),
    (* 12 *) PtrN("*T", 13),
    (* 13 *) StructN("T", <<14, 15>>),
    (* 14 *) IntN("int", 1),
    (* 15 *) PtrN("*T", 10),
    (* 16 *) StructN("T", <<17, 18>>),      \* D1 -> D2 -> nil
    (* 17 *) IntN("int", 0),
    (* 18 *) PtrN("*T", 19),
    (* 19 *) StructN("T", <<20, 21>>),
    (* 20 *) IntN("int", 0),
    (* 21 *) PtrN("*T", 0),
    (* 22 *) StructN("T", <<23, 24>>),      \* R1 -> R2 -> R3 -> R1
    (* 23 *) IntN("int", 0),
    (* 24 *) PtrN("*T", 25),
    (* 25 *) StructN("T", <<26, 27>>),
    (* 26 *) IntN("int", 0),
    (* 27 *) PtrN("*T", 28),
    (* 28 *) StructN("T", <<29, 30>>),
    (* 29 *) IntN("int", 0),
    (* 30 *) PtrN("*T", 22),
    (* 31 *) FuncN(FALSE),
    (* 32 *) FuncN(TRUE),
    (* 33 *) StructN("F", <<34, 35>>),      \* F{1, nil}
    (* 34 *) IntN("int", 1),
    (* 35 *) FuncN(TRUE),
    (* 36 *) StructN("F", <<37, 38>>),      \* F{1, func(){}}
    (* 37 *) IntN("int", 1),
    (* 38 *) FuncN(FALSE),
    (* 39 *) SliceN("[]int", TRUE, <<>>),   \* []int(nil)
    (* 40 *) SliceN("[]int", FALSE, <<>>),  \* []int{}
    (* 41 *) SliceN("[]int", FALSE, <<42, 43>>),
    (* 42 *) IntN("int", 1),
    (* 43 *) IntN("int", 2),
    (* 44 *) SliceN("[]int", FALSE, <<45>>),
    (* 45 *) IntN("int", 1),
    (* 46 *) ArrayN("[2]int", <<47, 48>>),
    (* 47 *) IntN("int", 1),
    (* 48 *) IntN("int", 2),
    (* 49 *) ArrayN("[2]int", <<50, 51>>),
    (* 50 *) IntN("int", 2),
    (* 51 *) IntN("int", 1),
    (* 52 *) MapN("map[string]int", 0, <<>>, <<>>),
    (* 53 *) MapN("map[string]int", 53, <<>>, <<>>),
    (* 54 *) MapN("map[string]int", 54, <<"a", "b">>, <<55, 56>>),
    (* 55 *) IntN("int", 1),
    (* 56 *) IntN("int", 2),
    (* 57 *) MapN("map[string]int", 57, <<"b", "a">>, <<58, 59>>),
    (* 58 *) IntN("int", 2),
    (* 59 *) IntN("int", 1),
    (* 60 *) MapN("map[string]int", 60, <<"a", "c">>, <<61, 62>>),
    (* 61 *) IntN("int", 1),
    (* 62 *) IntN("int", 2),
    (* 63 *) MapN("map[string]int", 63, <<"a", "b">>, <<64, 65>>),
    (* 64 *) IntN("int", 1),
    (* 65 *) IntN("int", 3),
    (* 66 *) IfaceN(0),
    (* 67 *) IfaceN(68),                    \* interface{}(int(1))
    (* 68 *) IntN("int", 1),
    (* 69 *) IfaceN(70),                    \* interface{}(MyInt(1))
    (* 70 *) IntN("MyInt", 1),
    (* 71 *) StructN("W", <<72, 73>>),      \* W{Tags: nil}
    (* 72 *) SliceN("[]int", TRUE, <<>>),
    (* 73 *) IfaceN(0),
    (* 74 *) StructN("W", <<75, 76>>),      \* W{Tags: []int{}}
    (* 75 *) SliceN("[]int", FALSE, <<>>),
    (* 76 *) IfaceN(0),
    (* 77 *) PtrN("*W", 71),
    (* 78 *) PtrN("*W", 74),
    (* 79 *) StructN("X", <<80>>),          \* X{M: nil}
    (* 80 *) MapN("map[string]int", 0, <<>>, <<>>),
    (* 81 *) StructN("X", <<82>>),          \* X{M: map[string]int{}}
    (* 82 *) MapN("map[string]int", 82, <<>>, <<>>),
    (* 83 *) MapN("M", 83, <<"a">>, <<83>>),            \* m["a"] = m
    (* 84 *) MapN("M", 84, <<"a", "b">>, <<83, 85>>),   \* {"a": m83, "b": nil}
    (* 85 *) MapN("M", 0, <<>>, <<>>),
    (* 86 *) MapN("M", 86, <<"a", "b">>, <<100, 87>>),  \* {"a": m100, "b": M{}}
    (* 87 *) MapN("M", 87, <<>>, <<>>),
    (* 88 *) SliceN("S", FALSE, <<89>>),    \* s := make(S, 1); s[0] = s
    (* 89 *) SliceN("S", FALSE, <<89>>),
    (* 90 *) SliceN("[]interface{}", FALSE, <<91>>),    \* s[0] = s
    (* 91 *) IfaceN(92),
    (* 92 *) SliceN("[]interface{}", FALSE, <<91>>),
    (* 93 *) PtrN("P", 93),                 \* p = &p
    (* 94 *) SliceN("[]int", FALSE, <<42, 43>>),        \* same storage as 41
    (* 95 *) MapN("map[string]int", 54, <<"a", "b">>, <<55, 56>>), \* same map as 54
    (* 96 *) PtrN("*[]int", 41),
    (* 97 *) PtrN("*map[string]int", 54),
    (* 98 *) PtrN("*[2]int", 46),
    (* 99 *) PtrN("*F", 36),
    (* 100 *) MapN("M", 100, <<"a">>, <<100>>)          \* m["a"] = m
>>

\* Size of a bank.
N == Len(Zoo)

\* The copy of a bank at offset off: every address in it is moved by off.
Shift(r, off) ==
    [r EXCEPT !.kids = [i \in DOMAIN r.kids |-> r.kids[i] + off],
              !.ptr  = IF r.ptr = 0 THEN 0 ELSE r.ptr + off]

\* The heap: the bank, and an independent deep copy of it N addresses further.
Heap == Zoo \o [i \in DOMAIN Zoo |-> Shift(Zoo[i], N)]

Nodes == DOMAIN Heap

\* Address every zero-length, non-nil slice points at.
ZeroBase == 2 * N + 1

Invalid == [n |-> 0, addr |-> FALSE]
Val(n, a) == [n |-> n, addr |-> a]

----------------------------------------------------------------------------
(* The reflect.Value operations deepValueEqual uses *)

IsValid(v)    == v.n # 0
Type(v)       == Heap[v.n].typ
Kind(v)       == Heap[v.n].kind
CanAddr(v)    == v.addr
UnsafeAddr(v) == v.n
\* IsNil with the nil test lost: nothing is nil.
IsNil_Never(v) == FALSE
IsNil(v)      == Heap[v.n].isnil
\* v.Len() and v.NumField()
NumElems(v)   == Len(Heap[v.n].kids)

\* v.Pointer(): a slice's data pointer (0 when nil), a map's storage
SlicePointer(v) ==
    IF Heap[v.n].isnil THEN 0
    ELSE IF Heap[v.n].kids = <<>> THEN ZeroBase ELSE Heap[v.n].kids[1]
Pointer(v) == IF Heap[v.n].kind = "slice" THEN SlicePointer(v) ELSE Heap[v.n].ptr

\* v.Index(i): an element of a slice is always addressable, an element of
\* an array is addressable when the array is
Index(v, i) ==
    Val(Heap[v.n].kids[i], IF Heap[v.n].kind = "slice" THEN TRUE ELSE v.addr)

\* v.Field(i)
Field(v, i) == Val(Heap[v.n].kids[i], v.addr)

\* v.Elem(): what a pointer points at is addressable, what an interface
\* holds is not; a nil pointer gives the invalid Value
Elem(v) ==
    IF Heap[v.n].ptr = 0 THEN Invalid
    ELSE Val(Heap[v.n].ptr, Heap[v.n].kind = "ptr")

\* v.MapIndex(k): the invalid Value when k is not a key of the map
MapIndex(v, k) ==
    LET m == Heap[v.n]
        at == {i \in DOMAIN m.keys : m.keys[i] = k}
    IN  IF at = {} THEN Invalid ELSE Val(m.kids[CHOOSE i \in at : TRUE], FALSE)

\* v.MapKeys(): the keys of the map in any order
MapKeys(v) ==
    LET ks == Heap[v.n].keys
        n  == Len(ks)
    IN  {[i \in 1..n |-> ks[p[i]]] :
            p \in {q \in [1..n -> 1..n] : \A i, j \in 1..n : q[i] = q[j] => i = j}}

\* The key orders a call on v1 may draw: those of v1.MapKeys() for a map.
KeyOrders(v) == IF IsValid(v) /\ Kind(v) = "map" THEN MapKeys(v) ELSE {<<>>}

\* How %#v and Println render a value: its type, its nil-ness and its number.
Render(v) ==
    IF IsValid(v)
    THEN [typ |-> Type(v), isnil |-> IsNil(v), val |-> Heap[v.n].val]
    ELSE [typ |-> "<invalid Value>", isnil |-> FALSE, val |-> 0]

RenderType(v) == [typ |-> Type(v), isnil |-> FALSE, val |-> 0]

----------------------------------------------------------------------------
(* deepEqualState and its methods.  S is [visited, depth, sub, trace, lvl]: *)
(* the four fields of the struct, and lvl, the nesting level of the        *)
(* invocation that is running (the number of callers it has on the stack). *)

\* One Fprint of the writer: pre is the number of indent units ("  ")
\* written before the text, nl whether the text ends its line.
Written(S, text, vals, nl) ==
    [pre  |-> IF S.sub THEN 0 ELSE IF S.depth > 0 THEN S.depth ELSE 0,
     text |-> text, vals |-> vals, nl |-> nl, lvl |-> S.lvl]

println(S, text, vals) ==
    [S EXCEPT !.trace = Append(@, Written(S, text, vals, TRUE)), !.sub = FALSE]

printf(S, text, vals, nl) ==
    [S EXCEPT !.trace = Append(@, Written(S, text, vals, nl)), !.sub = FALSE]

incDepth(S) == [S EXCEPT !.depth = @ + 1]

\* decDepth that leaves depth as it is.
decDepth_Noop(S) == S

decDepth(S) == [S EXCEPT !.depth = @ - 1]

\* hard without reflect.Struct.
hard_NoStruct(k) == k \in {"array", "map", "slice"}

hard(k) == k \in {"array", "map", "slice", "struct"}

\* Canon without the swap.
Canon_Unordered(x, y) == <<x, y>>

\* The canonical order of a pair of addresses.
Canon(x, y) == IF x > y THEN <<y, x>> ELSE <<x, y>>

visit(v1, v2) ==
    LET c == Canon(UnsafeAddr(v1), UnsafeAddr(v2))
    IN  [a1 |-> c[1], a2 |-> c[2], typ |-> Type(v1)]

\* ScalarEq by identity: the same storage rather than the same value.
ScalarEq_SameNode(v1, v2) == v1.n = v2.n

\* Normal equality of two values of a scalar type.
ScalarEq(v1, v2) == Heap[v1.n].val = Heap[v2.n].val

NoRet == [set |-> FALSE, b |-> FALSE, v1 |-> Invalid, v2 |-> Invalid, nc |-> 0]
Ret(b, v1, v2, nc) == [set |-> TRUE, b |-> b, v1 |-> v1, v2 |-> v2, nc |-> nc]

\* The invocation returns b at once: the deferred decDepth runs.
Return(S, stk, v1, v2, b) ==
    [S |-> decDepth(S), stack |-> stk, ret |-> Ret(b, v1, v2, 0)]

\* Loop that takes a value with no children for unequal.
Loop_EmptyFalse(S, stk, v1, v2, n, ord) ==
    IF n = 0 THEN Return(S, stk, v1, v2, FALSE)
    ELSE [S |-> S,
          stack |-> Append(stk, [v1 |-> v1, v2 |-> v2, i |-> 0, n |-> n, ord |-> ord]),
          ret |-> NoRet]

\* The invocation starts a loop over n children (one child for a pointer or
\* an interface); with none it returns true.
Loop(S, stk, v1, v2, n, ord) ==
    IF n = 0 THEN Return(S, stk, v1, v2, TRUE)
    ELSE [S |-> S,
          stack |-> Append(stk, [v1 |-> v1, v2 |-> v2, i |-> 0, n |-> n, ord |-> ord]),
          ret |-> NoRet]

\* switch v1.Kind()
Dispatch(S, stk, v1, v2, ord) ==
    CASE Kind(v1) = "array" ->
           Loop(println(S, "Comparing arrays of type:", <<RenderType(v1)>>),
                stk, v1, v2, NumElems(v1), <<>>)
      [] Kind(v1) = "slice" ->
           LET S1 == println(S, "Comparing slices of type:", <<RenderType(v1)>>)
           IN  IF IsNil(v1) # IsNil(v2)
               THEN Return(println(printf(S1, "  %#v != %#v", <<Render(v1), Render(v2)>>, TRUE),
                                   "  One of the slices is nil, so not equal", <<>>),
                           stk, v1, v2, FALSE)
               ELSE IF NumElems(v1) # NumElems(v2)
               THEN Return(println(S1, "  Unequal lengths, so not equal", <<>>),
                           stk, v1, v2, FALSE)
               ELSE IF Pointer(v1) = Pointer(v2)
               THEN Return(println(S1, "  Pointers equal, so equal", <<>>),
                           stk, v1, v2, TRUE)
               ELSE Loop(S1, stk, v1, v2, NumElems(v1), <<>>)
      [] Kind(v1) = "iface" ->
           LET S1 == println(S, "Comparing interfaces of type:", <<RenderType(v1)>>)
           IN  IF IsNil(v1) \/ IsNil(v2)
               THEN Return(println(S1, "  One of the interfaces is nil, so not equal", <<>>),
                           stk, v1, v2, IsNil(v1) = IsNil(v2))
               ELSE Loop(S1, stk, v1, v2, 1, <<>>)
      [] Kind(v1) = "ptr" ->
           Loop(println(S, "Comparing pointers of type:", <<RenderType(v1)>>),
                stk, v1, v2, 1, <<>>)
      [] Kind(v1) = "struct" ->
           Loop(println(S, "Comparing structs of type:", <<RenderType(v1)>>),
                stk, v1, v2, NumElems(v1), <<>>)
      [] Kind(v1) = "map" ->
           LET S1 == println(S, "Comparing map of type:", <<RenderType(v1)>>)
           IN  IF IsNil(v1) # IsNil(v2)
               THEN Return(println(S1, "  One of the maps is nil, so not equal", <<>>),
                           stk, v1, v2, FALSE)
               ELSE IF NumElems(v1) # NumElems(v2)
               THEN Return(println(S1, "  Lengths don't match, so not equal", <<>>),
                           stk, v1, v2, FALSE)
               ELSE IF Pointer(v1) = Pointer(v2)
               THEN Return(println(S1, "  Same pointer, so equal", <<>>),
                           stk, v1, v2, TRUE)
               ELSE Loop(S1, stk, v1, v2, NumElems(v1), ord)
      [] Kind(v1) = "func" ->
           IF IsNil(v1) /\ IsNil(v2)
           THEN Return(println(S, "  Both nil functions, so equal", <<>>),
                       stk, v1, v2, TRUE)
           ELSE Return(println(S, "  Not both nil functions, so not equal", <<>>),
                       stk, v1, v2, FALSE)
      [] OTHER ->
           IF ScalarEq(v1, v2)
           THEN Return(printf(S, "%#v == %#v", <<Render(v1), Render(v2)>>, TRUE),
                       stk, v1, v2, TRUE)
           ELSE Return(printf(S, "%#v != %#v", <<Render(v1), Render(v2)>>, TRUE),
                       stk, v1, v2, FALSE)

\* Guarded with the guard never consulted.
Guarded_Never(v1, v2) == FALSE

\* The cycle guard: the pair is consulted only when both values are
\* addressable and of a hard kind.
Guarded(v1, v2) == CanAddr(v1) /\ CanAddr(v2) /\ hard(Kind(v1))

\* One invocation of deepValueEqual(v1, v2) under the stack stk of its
\* callers, from its entry to its return or to its first recursive call;
\* ord is the order v1.MapKeys() gives when v1 is a map.
deepValueEqual(S0, stk, v1, v2, ord) ==
    LET S == [incDepth(S0) EXCEPT !.lvl = Len(stk)]
    IN  IF ~IsValid(v1) \/ ~IsValid(v2)
        THEN Return(println(S, "Something is not valid:", <<Render(v1), Render(v2)>>),
                    stk, v1, v2, IsValid(v1) = IsValid(v2))
        ELSE IF Type(v1) # Type(v2)
        THEN Return(println(S, "Types don't match", <<>>), stk, v1, v2, FALSE)
        ELSE IF Guarded(v1, v2)
        THEN IF visit(v1, v2).a1 = visit(v1, v2).a2
             THEN Return(println(S, "  Same address, so equal", <<>>), stk, v1, v2, TRUE)
             ELSE IF visit(v1, v2) \in S.visited
             THEN Return(println(S, "  Already visited, so equal", <<>>), stk, v1, v2, TRUE)
             ELSE Dispatch([S EXCEPT !.visited = @ \cup {visit(v1, v2)}], stk, v1, v2, ord)
        ELSE Dispatch(S, stk, v1, v2, ord)

\* The pair of children a frame compares next.
ChildPair(f) ==
    LET i == f.i + 1
    IN  CASE Kind(f.v1) \in {"array", "slice"} -> <<Index(f.v1, i), Index(f.v2, i)>>
          [] Kind(f.v1) = "struct" -> <<Field(f.v1, i), Field(f.v2, i)>>
          [] Kind(f.v1) = "map" -> <<MapIndex(f.v1, f.ord[i]), MapIndex(f.v2, f.ord[i])>>
          [] OTHER -> <<Elem(f.v1), Elem(f.v2)>>

\* What a frame writes before it calls its next child: the field name or
\* the key, with sub set so that the child's first line follows it.
Label(S, f) ==
    CASE Kind(f.v1) = "struct" ->
           [printf(S, "  %v: ", <<[typ |-> FieldNames(Type(f.v1))[f.i + 1],
                                   isnil |-> FALSE, val |-> 0]>>, FALSE)
              EXCEPT !.sub = TRUE]
      [] Kind(f.v1) = "map" ->
           [printf(S, "%#v: ", <<[typ |-> f.ord[f.i + 1], isnil |-> FALSE, val |-> 0]>>, FALSE)
              EXCEPT !.sub = TRUE]
      [] OTHER -> S

----------------------------------------------------------------------------
VARIABLES
    a1, a2,      \* the arguments of DeepEqual: a node, or 0 for the untyped nil
    pc,          \* "idle", "run", "done", or "overflow" once the stack is exhausted
    calls,       \* how many times DeepEqual was called
    prev,        \* how the previous call on these arguments ended
    visited, depth, sub, trace,   \* the fields of deepEqualState (w is trace)
    stack,       \* the active invocations of deepValueEqual, outermost first
    ret,         \* the value an invocation has just returned to its caller
    result       \* the verdict DeepEqual returned

vars == <<a1, a2, pc, calls, prev, visited, depth, sub, trace, stack, ret, result>>

\* The arguments DeepEqual can be given: an interface{} holds a value of a
\* concrete type or is nil, never an interface.
Args == {0} \cup {n \in Nodes : Heap[n].kind # "iface"}

State(lvl) ==
    [visited |-> visited, depth |-> depth, sub |-> sub, trace |-> trace, lvl |-> lvl]

Install(r) ==
    /\ visited' = r.S.visited
    /\ depth' = r.S.depth
    /\ sub' = r.S.sub
    /\ trace' = r.S.trace
    /\ stack' = r.stack
    /\ ret' = r.ret

Init ==
    /\ a1 \in Args /\ a1 <= N
    /\ a2 \in Args
    /\ pc = "idle"
    /\ calls = 0
    /\ prev = [set |-> FALSE, pc |-> "idle", eq |-> FALSE]
    /\ visited = {}
    /\ depth = -1
    /\ sub = FALSE
    /\ trace = <<>>
    /\ stack = <<>>
    /\ ret = NoRet
    /\ result = FALSE

\* TypesDiffer with the type test lost.
TypesDiffer_Never(x, y) == FALSE

\* v1.Type() != v2.Type() on the two arguments
TypesDiffer(x, y) == Heap[x].typ # Heap[y].typ

\* DeepEqual(a1, a2) is called.
DeepEqual ==
    /\ pc \in {"idle", "done", "overflow"}
    /\ calls < MaxCalls
    /\ calls' = calls + 1
    /\ prev' = [set |-> calls > 0, pc |-> pc, eq |-> pc = "done" /\ result]
    /\ UNCHANGED <<a1, a2>>
    /\ IF a1 = 0 \/ a2 = 0
       THEN /\ result' = (a1 = a2)
            /\ trace' = <<>>
            /\ pc' = "done"
            /\ stack' = <<>>
            /\ ret' = NoRet
            /\ UNCHANGED <<visited, depth, sub>>
       ELSE IF TypesDiffer(a1, a2)
       THEN /\ result' = FALSE
            /\ trace' = <<>>
            /\ pc' = "done"
            /\ stack' = <<>>
            /\ ret' = NoRet
            /\ UNCHANGED <<visited, depth, sub>>
       ELSE /\ \E ord \in KeyOrders(Val(a1, FALSE)) :
                 Install(deepValueEqual(
                     [visited |-> {}, depth |-> -1, sub |-> FALSE, trace |-> <<>>, lvl |-> 0],
                     <<>>, Val(a1, FALSE), Val(a2, FALSE), ord))
            /\ pc' = "run"
            /\ UNCHANGED result

\* The innermost invocation calls deepValueEqual on its next child.
Descend ==
    /\ pc = "run"
    /\ ~ret.set
    /\ stack # <<>>
    /\ Len(stack) < MaxStack
    /\ LET f == stack[Len(stack)]
           c == ChildPair(f)
       IN  \E ord \in KeyOrders(c[1]) :
               Install(deepValueEqual(Label(State(Len(stack) - 1), f), stack, c[1], c[2], ord))
    /\ UNCHANGED <<a1, a2, pc, calls, prev, result>>

\* The call does not fit on the stack: the runtime ends the program.
StackOverflow ==
    /\ pc = "run"
    /\ ~ret.set
    /\ stack # <<>>
    /\ Len(stack) >= MaxStack
    /\ pc' = "overflow"
    /\ UNCHANGED <<a1, a2, calls, prev, visited, depth, sub, trace, stack, ret, result>>

\* The innermost invocation gets its child's verdict: false ends it, true
\* moves it to its next child, or ends it after the last one.
Resume ==
    /\ pc = "run"
    /\ ret.set
    /\ stack # <<>>
    /\ LET f == stack[Len(stack)]
           rest == SubSeq(stack, 1, Len(stack) - 1)
       IN  IF ~ret.b \/ f.i + 1 = f.n
           THEN Install([S |-> decDepth(State(Len(stack) - 1)), stack |-> rest,
                         ret |-> Ret(ret.b, f.v1, f.v2, f.i + 1)])
           ELSE Install([S |-> State(Len(stack) - 1),
                         stack |-> Append(rest, [f EXCEPT !.i = @ + 1]),
                         ret |-> NoRet])
    /\ UNCHANGED <<a1, a2, pc, calls, prev, result>>

\* The outermost invocation has returned: DeepEqual returns its verdict
\* and the buffer.
Finish ==
    /\ pc = "run"
    /\ ret.set
    /\ stack = <<>>
    /\ result' = ret.b
    /\ pc' = "done"
    /\ ret' = NoRet
    /\ UNCHANGED <<a1, a2, calls, prev, visited, depth, sub, trace, stack>>

Next == DeepEqual \/ Descend \/ StackOverflow \/ Resume \/ Finish

Spec == Init /\ [][Next]_vars

\* The program runs on: a call that can take a step takes it.
FairSpec == Spec /\ WF_vars(Next)

TypeOK ==
    /\ pc \in {"idle", "run", "done", "overflow"}
    /\ calls \in 0..MaxCalls
    /\ depth \in -1..MaxStack
    /\ sub \in BOOLEAN
    /\ result \in BOOLEAN
    /\ Len(stack) <= MaxStack

----------------------------------------------------------------------------
(* Shapes of the values in the heap *)

\* The nodes a node refers to: its fields, elements and map values, and
\* what a pointer points at or an interface holds.
Succ(n) ==
    {Heap[n].kids[i] : i \in DOMAIN Heap[n].kids}
        \cup (IF Heap[n].kind \in {"ptr", "iface"} /\ Heap[n].ptr # 0
              THEN {Heap[n].ptr} ELSE {})

RECURSIVE Closure(_, _)
Closure(seen, front) ==
    IF front \subseteq seen THEN seen
    ELSE Closure(seen \cup front, UNION {Succ(m) : m \in front})

\* Nodes reachable from n in one step or more.
ReachPlus == [n \in Nodes |-> Closure({}, Succ(n))]

OnCycle == {n \in Nodes : n \in ReachPlus[n]}

\* Values that contain no cycle.
AcyclicNodes == {n \in Nodes : (ReachPlus[n] \cup {n}) \cap OnCycle = {}}

\* Values that contain a non-nil func.
FuncNodes ==
    {n \in Nodes : \E m \in ReachPlus[n] \cup {n} :
        Heap[m].kind = "func" /\ ~Heap[m].isnil}

\* Lists of T records: the record a *T points at, its Val, its Next.
Rec(p)     == Heap[p].ptr
ValOf(p)   == Heap[Heap[Rec(p)].kids[1]].val
NextOf(p)  == Heap[Rec(p)].kids[2]

\* Whether the lists at the *T nodes p and q read the same for k records.
RECURSIVE SameList(_, _, _)
SameList(p, q, k) ==
    IF k = 0 THEN TRUE
    ELSE IF Rec(p) = 0 \/ Rec(q) = 0 THEN Rec(p) = Rec(q)
    ELSE ValOf(p) = ValOf(q) /\ SameList(NextOf(p), NextOf(q), k - 1)

\* The T records that can be reached from a node.
RecsFrom(p) == {n \in ReachPlus[p] : Heap[n].typ = "T"}

\* Two lists that read the same for this many records read the same for
\* ever: by then every pair of records they pass through has come up.
UnfoldLen(p, q) == Cardinality(RecsFrom(p)) * Cardinality(RecsFrom(q)) + 1

\* Whether the lists at the *T nodes p and q read the same.
SameUnfolding(p, q) == SameList(p, q, UnfoldLen(p, q))

\* The length of the cycle the record r lies on.
RECURSIVE Steps(_, _, _)
Steps(r, at, k) ==
    IF Rec(Heap[at].kids[2]) = r THEN k ELSE Steps(r, Rec(Heap[at].kids[2]), k + 1)
CycleLen(p) == Steps(Rec(p), Rec(p), 1)

\* *T pointers to a record that lies on a cycle.
RingPtrs == {n \in Nodes : Heap[n].typ = "*T" /\ n \in OnCycle}

Top == stack[Len(stack)]
BothArgs == a1 # 0 /\ a2 # 0

----------------------------------------------------------------------------
(* The claims *)

\* C1: every top-level call terminates: the recursion never exhausts the
\* stack by comparing the same pair of values again and again.
C1_Terminates == pc # "overflow"

\* The stack is exhausted only by a regress: two active invocations
\* comparing the same pair of values.
OverflowIsRegress ==
    pc = "overflow" =>
        \E i, j \in 1..Len(stack) :
            i < j /\ stack[i].v1 = stack[j].v1 /\ stack[i].v2 = stack[j].v2

\* C2: a self-referential record compared with a structurally identical
\* one (its independent copy) terminates and returns true.
C2_CyclicRecordEqualsCopy ==
    (a1 \in OnCycle /\ Heap[a1].typ \in {"T", "*T"} /\ a2 = a1 + N)
        => <>(pc = "done" /\ result)

C2_Witness ==
    /\ pc = "done" /\ result
    /\ a1 \in RingPtrs /\ a2 = a1 + N /\ CycleLen(a1) > 1
    /\ \E j \in DOMAIN trace : trace[j].text = "  Already visited, so equal"

\* C3 as stated: two cyclic records whose cycles differ in length, all
\* field values equal, compare false.
C3_DifferentCycleLengthUnequal ==
    (pc = "done" /\ BothArgs /\ a1 \in RingPtrs /\ a2 \in RingPtrs
        /\ CycleLen(a1) # CycleLen(a2) /\ SameUnfolding(a1, a2))
        => ~result

\* C3 amended: comparing two lists of T records, cyclic or not, terminates
\* and returns true exactly when the two read the same record after
\* record (the same Val, and nil on both sides or on neither); cycles of
\* different lengths whose values agree compare true.
C3_VerdictIsSameUnfolding ==
    (BothArgs /\ Heap[a1].typ = "*T" /\ Heap[a2].typ = "*T")
        => /\ pc # "overflow"
           /\ pc = "done" => (result <=> SameUnfolding(a1, a2))

C3_Witness ==
    /\ pc = "done" /\ result /\ BothArgs
    /\ a1 \in RingPtrs /\ a2 \in RingPtrs /\ CycleLen(a1) # CycleLen(a2)

\* C4 as stated: any acyclic value compared with an independent deep copy
\* of itself gives true and a non-empty trace.
C4_CopyEqual ==
    (pc = "done" /\ a1 # 0 /\ a1 \in AcyclicNodes /\ a2 = a1 + N)
        => result /\ trace # <<>>

\* C4 amended: any acyclic value that holds no non-nil func, compared with
\* an independent deep copy of itself, gives true and a non-empty trace.
C4_FuncFreeCopyEqual ==
    (a1 # 0 /\ a1 \in AcyclicNodes \ FuncNodes /\ a2 = a1 + N)
        => /\ pc # "overflow"
           /\ pc = "done" => result /\ trace # <<>>

C4_Witness ==
    /\ pc = "done" /\ result /\ Len(trace) > 3
    /\ a1 # 0 /\ a1 \in AcyclicNodes \ FuncNodes /\ a2 = a1 + N
    /\ Heap[a1].kind = "map"

\* A pair that holds the same array, slice, map or struct on both sides.
SameIdentity(v1, v2) == IsValid(v1) /\ v1.n = v2.n /\ hard(Kind(v1))

\* C5 as stated: a value of a hard kind compared with itself returns true
\* without a recursive call, addressable or not.
C5_SelfEqualNoRecursion ==
    /\ \A i \in DOMAIN stack : ~SameIdentity(stack[i].v1, stack[i].v2)
    /\ (ret.set /\ SameIdentity(ret.v1, ret.v2)) => (ret.b /\ ret.nc = 0)

\* The pairs the identity shortcuts cover: addressable values of a hard
\* kind, and slices and maps, which carry their storage pointer.
Shortcut(v1, v2) ==
    SameIdentity(v1, v2) /\ ((CanAddr(v1) /\ CanAddr(v2)) \/ Kind(v1) \in {"slice", "map"})

\* C5 amended: an addressable array, slice, map or struct, and a slice or
\* map whether addressable or not, compared with itself returns true
\* without a recursive call.
C5_ShortcutNoRecursion ==
    /\ \A i \in DOMAIN stack : ~Shortcut(stack[i].v1, stack[i].v2)
    /\ (ret.set /\ Shortcut(ret.v1, ret.v2)) => (ret.b /\ ret.nc = 0)

C5_Witness ==
    /\ ret.set /\ ret.b /\ ret.nc = 0
    /\ Shortcut(ret.v1, ret.v2) /\ Kind(ret.v1) = "struct"
    /\ trace[Len(trace)].text = "  Same address, so equal"

\* C6: the trace is empty exactly when an argument is the untyped nil
\* (verdict: both are) or the types differ (verdict: false); otherwise
\* the comparator runs, and every invocation writes a line before it
\* returns or recurses.
C6_EmptyTraceIffNoRun ==
    /\ pc = "done" =>
          /\ (trace = <<>>) <=> (~BothArgs \/ Heap[a1].typ # Heap[a2].typ)
          /\ ~BothArgs => (result <=> (a1 = 0 /\ a2 = 0))
          /\ (BothArgs /\ Heap[a1].typ # Heap[a2].typ) => ~result
    /\ pc = "run" =>
          /\ \A i \in DOMAIN stack : \E j \in DOMAIN trace :
                 trace[j].lvl = i - 1 /\ trace[j].nl
          /\ (ret.set /\ ret.nc = 0) =>
                 (trace # <<>> /\ trace[Len(trace)].lvl = Len(stack)
                               /\ trace[Len(trace)].nl)

C6_Witness ==
    /\ pc = "done" /\ trace = <<>> /\ BothArgs /\ ~result
    /\ Heap[a1].val = Heap[a2].val /\ Heap[a1].kind = "int"

\* A nil slice against a non-nil slice, or a nil map against a non-nil map.
NilMismatch(v1, v2) ==
    /\ IsValid(v1) /\ IsValid(v2) /\ Type(v1) = Type(v2)
    /\ Kind(v1) \in {"slice", "map"}
    /\ Heap[v1.n].isnil # Heap[v2.n].isnil

\* C7: at any nesting level a nil slice or map against a non-nil one (an
\* empty one too) returns false, on the nil test; and a false verdict is
\* passed up to the verdict of DeepEqual.
C7_NilNeverEqualsEmpty ==
    /\ [](/\ \A i \in DOMAIN stack : ~NilMismatch(stack[i].v1, stack[i].v2)
          /\ (ret.set /\ NilMismatch(ret.v1, ret.v2)) =>
               /\ ~ret.b
               /\ trace[Len(trace)].text \in
                     {"  One of the slices is nil, so not equal",
                      "  One of the maps is nil, so not equal"})
    /\ [][(ret.set /\ ~ret.b) =>
             ((ret'.set /\ ~ret'.b) \/ (pc' = "done" /\ ~result'))]_vars

C7_Witness ==
    /\ ret.set /\ ~ret.b /\ Len(stack) > 1
    /\ NilMismatch(ret.v1, ret.v2)
    /\ NumElems(ret.v1) = 0 /\ NumElems(ret.v2) = 0

\* C8: called again on the same two maps, whatever order the keys come
\* in, DeepEqual ends the same way with the same verdict.
C8_OrderIndependent ==
    (prev.set /\ pc \in {"done", "overflow"} /\ BothArgs /\ Heap[a1].kind = "map")
        => (prev.pc = pc /\ prev.eq = (pc = "done" /\ result))

\* Two calls on the same arguments that both return give the same verdict.
ReturnedVerdictsAgree ==
    (prev.set /\ pc = "done" /\ prev.pc = "done") => prev.eq = result

\* C9: depth is the number of active invocations less one, and -1 once
\* the call has returned; each write is indented by depth units, but for
\* the line that follows a label, which is not indented; a label is
\* always followed by the first line of the child it labels, and sub is
\* clear whenever an invocation calls or returns.
C9_DepthAndIndent ==
    /\ depth = Len(stack) - 1
    /\ ~sub
    /\ \A j \in DOMAIN trace :
          /\ trace[j].lvl >= 0
          /\ trace[j].pre = IF j > 1 /\ ~trace[j - 1].nl THEN 0 ELSE trace[j].lvl
          /\ ~trace[j].nl =>
                /\ j < Len(trace)
                /\ trace[j + 1].nl
                /\ trace[j + 1].lvl = trace[j].lvl + 1

C9_Witness ==
    /\ pc = "done" /\ depth = -1
    /\ \E j \in DOMAIN trace :
          ~trace[j].nl /\ trace[j].pre = 2 /\ trace[j + 1].pre = 0 /\ trace[j + 1].lvl = 3
    /\ \E j \in DOMAIN trace : trace[j].nl /\ trace[j].pre = 4

\* C10: every record of visited has its smaller address first, and is
\* the record of a pair of addressable values of one hard kind at two
\* different addresses; during a call records are added only for the pair
\* being invoked, and none is removed.
C10_VisitedCanonical ==
    /\ [](\A r \in visited :
            /\ r.a1 < r.a2
            /\ hard(Heap[r.a1].kind)
            /\ Heap[r.a1].typ = r.typ /\ Heap[r.a2].typ = r.typ)
    /\ [][/\ calls' = calls => visited \subseteq visited'
          /\ \A r \in visited' \ visited :
                LET v1 == IF ret'.set THEN ret'.v1 ELSE stack'[Len(stack')].v1
                    v2 == IF ret'.set THEN ret'.v2 ELSE stack'[Len(stack')].v2
                IN  /\ CanAddr(v1) /\ CanAddr(v2) /\ hard(Kind(v1))
                    /\ UnsafeAddr(v1) # UnsafeAddr(v2)
                    /\ {r.a1, r.a2} = {UnsafeAddr(v1), UnsafeAddr(v2)}
                    /\ r.typ = Type(v1)]_vars

C10_Witness ==
    /\ pc = "run" /\ stack # <<>> /\ ~ret.set
    /\ CanAddr(Top.v1) /\ UnsafeAddr(Top.v1) > UnsafeAddr(Top.v2)
    /\ [a1 |-> UnsafeAddr(Top.v2), a2 |-> UnsafeAddr(Top.v1), typ |-> Type(Top.v1)]
          \in visited
    /\ Cardinality(visited) > 1
=============================================================================
